---- MODULE Spec2Model ----
(***************************************************************************)
(* SideBySide (src/abhi.py): a linear script that parses its command line, *)
(* queries the display and the first video, builds two ffplay command      *)
(* lines, launches them one after the other through AutoIt, waits for each *)
(* window to become active and then polls until both windows are gone.     *)
(*                                                                         *)
(* Python strings are TLA+ strings; lists are sequences.  sys.argv[k] is   *)
(* argv[k+1].  Python floats are modelled as exact rationals (a pair       *)
(* <<numerator, denominator>>), int() as truncation toward zero.           *)
(***************************************************************************)
EXTENDS Integers, Sequences, FiniteSets, TLC

(***************************************************************************)
(* Python built-ins used by the script                                     *)
(***************************************************************************)
\* s[i-1], the i-th character of s as a string
char(s, i) == SubSeq(s, i, i)

\* The number of leading occurrences of c in s.
leading(s, c) ==
    CHOOSE k \in 0..Len(s) :
        /\ \A j \in 1..k : char(s, j) = c
        /\ k = Len(s) \/ char(s, k + 1) # c

\* The number of trailing occurrences of c in s.
trailing(s, c) ==
    CHOOSE k \in 0..Len(s) :
        /\ \A j \in (Len(s) - k + 1)..Len(s) : char(s, j) = c
        /\ k = Len(s) \/ char(s, Len(s) - k) # c

lstrip(s, c) == SubSeq(s, leading(s, c) + 1, Len(s))

rstrip(s, c) == SubSeq(s, 1, Len(s) - trailing(s, c))

\* A stripping rule that removes trailing characters only.
strip_trailing_only(s, c) == rstrip(s, c)

\* str.strip(c): removes every leading and every trailing occurrence of c.
strip(s, c) == rstrip(lstrip(s, c), c)

lowerChar(ch) ==
    CASE ch = "A" -> "a" [] ch = "B" -> "b" [] ch = "C" -> "c" [] ch = "D" -> "d"
      [] ch = "E" -> "e" [] ch = "F" -> "f" [] ch = "G" -> "g" [] ch = "H" -> "h"
      [] ch = "I" -> "i" [] ch = "J" -> "j" [] ch = "K" -> "k" [] ch = "L" -> "l"
      [] ch = "M" -> "m" [] ch = "N" -> "n" [] ch = "O" -> "o" [] ch = "P" -> "p"
      [] ch = "Q" -> "q" [] ch = "R" -> "r" [] ch = "S" -> "s" [] ch = "T" -> "t"
      [] ch = "U" -> "u" [] ch = "V" -> "v" [] ch = "W" -> "w" [] ch = "X" -> "x"
      [] ch = "Y" -> "y" [] ch = "Z" -> "z" [] OTHER -> ch

RECURSIVE lowerFrom(_, _)
lowerFrom(s, i) ==
    IF i > Len(s) THEN "" ELSE lowerChar(char(s, i)) \o lowerFrom(s, i + 1)

\* str.lower()
lower(s) == lowerFrom(s, 1)

RECURSIVE joinFrom(_, _, _)
joinFrom(sep, list, k) ==
    IF k > Len(list) THEN ""
    ELSE IF k = Len(list) THEN list[k]
    ELSE list[k] \o sep \o joinFrom(sep, list, k + 1)

\* sep.join(list)
join(sep, list) == joinFrom(sep, list, 1)

Digits == "0123456789"

isDigit(ch) == \E d \in 1..10 : char(Digits, d) = ch

digitValue(ch) == (CHOOSE d \in 1..10 : char(Digits, d) = ch) - 1

RECURSIVE strNat(_)
strNat(n) ==
    IF n < 10 THEN char(Digits, n + 1)
    ELSE strNat(n \div 10) \o char(Digits, (n % 10) + 1)

\* str(n) for an integer n
str(n) == IF n < 0 THEN "-" \o strNat(-n) ELSE strNat(n)

RECURSIVE intOfDigits(_, _)
intOfDigits(s, n) ==
    IF n = 0 THEN 0 ELSE 10 * intOfDigits(s, n - 1) + digitValue(char(s, n))

\* int(s) for a string of decimal digits
intOfStr(s) == intOfDigits(s, Len(s))

abs(n) == IF n < 0 THEN -n ELSE n

\* int(n / d) for the float quotient n/d: truncation toward zero
int(n, d) ==
    IF (n >= 0) = (d > 0) THEN abs(n) \div abs(d) ELSE -(abs(n) \div abs(d))

\* sub in s
contains(s, sub) ==
    \E i \in 1..(Len(s) - Len(sub) + 1) : SubSeq(s, i, i + Len(sub) - 1) = sub

\* The number of occurrences of the character sep among the first i of s.
count(s, sep, i) == Cardinality({j \in 1..i : char(s, j) = sep})

\* The index of the k-th occurrence of the character sep in s.
nth(s, sep, k) == CHOOSE i \in 1..Len(s) : char(s, i) = sep /\ count(s, sep, i) = k

\* str.split(sep) for a one-character separator
split(s, sep) ==
    [k \in 1..(count(s, sep, Len(s)) + 1) |->
        SubSeq(s, IF k = 1 THEN 1 ELSE nth(s, sep, k - 1) + 1,
                  IF k = count(s, sep, Len(s)) + 1 THEN Len(s) ELSE nth(s, sep, k) - 1)]

(***************************************************************************)
(* re.search(' \d+x\d+ ', line): the leftmost match, as <<start, end>>     *)
(* (0-based, end exclusive), or <<-1, -1>> when there is none.             *)
(***************************************************************************)
\* The length of the longest run of digits of s that starts at index i.
digitRun(s, i) ==
    CHOOSE k \in 0..(Len(s) - i + 1) :
        /\ \A j \in i..(i + k - 1) : isDigit(char(s, j))
        /\ i + k > Len(s) \/ ~isDigit(char(s, i + k))

\* Length of a match of ' \d+x\d+ ' that starts at index i of s, 0 when none.
matchLen(s, i) ==
    IF char(s, i) # " " THEN 0
    ELSE LET a == digitRun(s, i + 1)
         IN  IF a = 0 \/ char(s, i + 1 + a) # "x" THEN 0
             ELSE LET b == digitRun(s, i + 2 + a)
                  IN  IF b = 0 \/ char(s, i + 2 + a + b) # " " THEN 0
                      ELSE a + b + 3

re_search(line) ==
    LET starts == {i \in 1..Len(line) : matchLen(line, i) > 0}
    IN  IF starts = {} THEN <<-1, -1>>
        ELSE LET i == CHOOSE m \in starts : \A o \in starts : m <= o
             IN  <<i - 1, i - 1 + matchLen(line, i)>>

\* line[a:b] for 0 <= a <= b <= len(line)
slice(line, a, b) == SubSeq(line, a + 1, b)

(***************************************************************************)
(* VideoSize: the frame size found in ffprobe's stderr text, or (0, 0).    *)
(***************************************************************************)
VideoSize(stderrText) ==
    LET lines == split(stderrText, "\n")
        found == {k \in 1..Len(lines) :
                     contains(lines[k], "Video:") /\ re_search(lines[k])[1] >= 0}
    IN  IF found = {} THEN <<0, 0>>
        ELSE LET line   == lines[CHOOSE k \in found : \A o \in found : k <= o]
                 search == re_search(line)
                 wh     == split(slice(line, 1 + search[1], search[2] - 1), "x")
             IN  <<intOfStr(wh[1]), intOfStr(wh[2])>>

(***************************************************************************)
(* The inputs of a run: the command line, the files on disk, the display   *)
(* and what ffprobe prints about the first video.                          *)
(***************************************************************************)
Prog == "SideBySide.py"

CommandLines ==
    { <<Prog>>,
      <<Prog, "a.mp4">>,
      <<Prog, "a.mp4", "b.mp4">>,
      <<Prog, "a.mp4", "-same">>,
      <<Prog, "a.mp4", "-same", "-GREY">>,
      <<Prog, "a.mp4", "b.mp4", "-sepia", "-an">>,
      <<Prog, "a.mp4", "-same", "-contrast", ".120">>,
      <<Prog, "video1.mp4", "-same", "-gamma", "0.90">>,
      <<Prog, "a.mp4", "-same", "-gamma">>,
      <<Prog, "a.mp4", "b.mp4", "-vf", "smartblur=5:0.8:0">> }

FileSystems ==
    { {}, {"a.mp4"}, {"b.mp4"}, {"a.mp4", "b.mp4"}, {"video1.mp4"} }

Displays == { <<1920, 1080>>, <<1365, 768>> }

ProbeOutputs ==
    { "Input #0, mov\n Stream #0: Video: h264, 1920x1080 [SAR 1:1]\n Stream #1: Audio: aac",
      "Input #0, avi\n Stream #0: Video: mpeg4, 700x300 , 30 fps",
      "Input #0, avi\n Stream #0: Video: mpeg4, 640x480, 30 fps",
      "Input #0, raw\n Stream #0: Video: rawvideo, 0x480 , 1 fps",
      "a.mp4: Invalid data found" }

Margin == 20

WaitSeconds == 5

PollsPerSecond == 10

PollMillis == 100

VARIABLES
    argv,         \* sys.argv
    files,        \* the paths for which os.path.isfile is true
    screen,       \* the display resolution tkinter reports
    probe,        \* what ffprobe writes to stderr about the first video
    pc,           \* the statement the script is at
    video1, video2, args,
    title1, title2,
    dw, dh, vw, vh, aspect,
    x1, y1, x2, y2,
    cmd1, cmd2,
    p1, p2,
    handle1, handle2,
    caller,       \* which WaitFor call is running: 0 (none), 1 or 2
    timeout,      \* WaitFor's local countdown
    waited,       \* milliseconds slept in the running WaitFor call
    win,          \* the two player windows as the window manager sees them
    runs,         \* the command lines handed to aut.Run, in order
    stdout,       \* what the script printed
    stderr,       \* the interpreter's traceback of an uncaught exception
    exitcode,     \* the process exit status once pc = "exit"
    interrupted,  \* where a KeyboardInterrupt arrived: "", "WaitFor1", "WaitFor2", "loop"
    visited       \* the statements executed so far

inputs   == <<argv, files, screen, probe>>
parsed   == <<video1, video2, args, title1, title2>>
geometry == <<dw, dh, vw, vh, aspect, x1, y1, x2, y2>>
launch   == <<cmd1, cmd2, p1, p2, handle1, handle2, runs>>
waiting  == <<caller, timeout, waited>>
outcome  == <<stdout, stderr, exitcode, interrupted>>

vars == <<inputs, pc, parsed, geometry, launch, waiting, win, outcome, visited>>

Init ==
    /\ argv \in CommandLines
    /\ files \in FileSystems
    /\ screen \in Displays
    /\ probe \in ProbeOutputs
    /\ pc = "usage"
    /\ video1 = "" /\ video2 = "" /\ args = ""
    /\ title1 = "" /\ title2 = ""
    /\ dw = 0 /\ dh = 0 /\ vw = 0 /\ vh = 0 /\ aspect = <<0, 1>>
    /\ x1 = "" /\ y1 = "" /\ x2 = "" /\ y2 = ""
    /\ cmd1 = "" /\ cmd2 = ""
    /\ p1 = 0 /\ p2 = 0
    /\ handle1 = "" /\ handle2 = ""
    /\ caller = 0 /\ timeout = 0 /\ waited = 0
    /\ win = [i \in {1, 2} |-> "none"]
    /\ runs = <<>>
    /\ stdout = <<>> /\ stderr = <<>>
    /\ exitcode = 0
    /\ interrupted = ""
    /\ visited = {}

\* sys.argv[k]
arg(k) == argv[k + 1]

\* The control transfer of every statement: pc moves and the step is recorded.
goto(label) ==
    /\ pc' = label
    /\ visited' = visited \cup {pc}

\* sys.exit(): SystemExit with no code, exit status 0.
sys_exit_nonzero == goto("exit") /\ exitcode' = 1

sys_exit == goto("exit") /\ exitcode' = 0

\* An exception nothing catches: the interpreter prints a traceback, status 1.
uncaught(exc) ==
    /\ goto("exit")
    /\ stderr' = Append(stderr, exc)
    /\ exitcode' = 1

(***************************************************************************)
(* Argument interpreter                                                    *)
(***************************************************************************)
UsageText == "\nSideBySide video1 video2\n"

Grey == "-vf colorchannelmixer=.3:.4:.3:0:.3:.4:.3:0:.3:.4:.3"

Sepia == "-vf colorchannelmixer=.393:.769:.189:0:.349:.686:.168:0:.272:.534:.131"

\* len(sys.argv) < 3
tooFewArgs(av) == Len(av) < 3

CheckUsage ==
    /\ pc = "usage"
    /\ IF tooFewArgs(argv)
       THEN /\ stdout' = Append(stdout, UsageText)
            /\ sys_exit
            /\ UNCHANGED <<stderr, interrupted>>
       ELSE /\ goto("parse")
            /\ UNCHANGED outcome
    /\ UNCHANGED <<inputs, parsed, geometry, launch, waiting, win>>

\* video2, with '-same' standing for video1
secondVideo(av) == IF av[3] = "-same" THEN av[2] ELSE av[3]

\* The passthrough args built from sys.argv[3:].
shortcutArgs(av) ==
    IF Len(av) > 3
    THEN IF lower(av[4]) = "-grey" THEN Grey
         ELSE IF lower(av[4]) = "-sepia" THEN Sepia
         ELSE IF lower(av[4]) = "-contrast" /\ Len(av) > 4
              THEN LET cval == strip(av[5], "0")
                   IN  "-vf colorlevels=rimin=" \o cval \o ":gimin=" \o cval
                           \o ":bimin=" \o cval
         ELSE IF lower(av[4]) = "-gamma" /\ Len(av) > 4
              THEN LET gval == strip(av[5], "0")
                   IN  "-vf eq=gamma=" \o gval
         ELSE join(" ", SubSeq(av, 4, Len(av)))
    ELSE ""

ParseArgs ==
    /\ pc = "parse"
    /\ video1' = arg(1)
    /\ video2' = secondVideo(argv)
    /\ args' = shortcutArgs(argv)
    /\ goto("check1")
    /\ UNCHANGED <<inputs, title1, title2, geometry, launch, waiting, win, outcome>>

\* A file check that accepts every path.
isfile_always(path) == TRUE

\* os.path.isfile
isfile(path) == path \in files

CheckVideo1 ==
    /\ pc = "check1"
    /\ IF ~isfile(video1)
       THEN /\ stdout' = Append(stdout, "Could not find: " \o video1)
            /\ sys_exit
            /\ UNCHANGED <<stderr, interrupted>>
       ELSE /\ goto("check2")
            /\ UNCHANGED outcome
    /\ UNCHANGED <<inputs, parsed, geometry, launch, waiting, win>>

CheckVideo2 ==
    /\ pc = "check2"
    /\ IF ~isfile(video2)
       THEN /\ stdout' = Append(stdout, "Could not find: " \o video2)
            /\ sys_exit
            /\ UNCHANGED <<stderr, interrupted>>
       ELSE /\ goto("titles")
            /\ UNCHANGED outcome
    /\ UNCHANGED <<inputs, parsed, geometry, launch, waiting, win>>

windowTitle(n, video) == str(n) \o ": " \o video

MakeTitles ==
    /\ pc = "titles"
    /\ title1' = windowTitle(1, video1)
    /\ title2' = windowTitle(2, video2)
    /\ goto("sizes")
    /\ UNCHANGED <<inputs, video1, video2, args, geometry, launch, waiting, win, outcome>>

(***************************************************************************)
(* Geometry resolver                                                       *)
(***************************************************************************)
DisplaySize == screen

QuerySizes ==
    /\ pc = "sizes"
    /\ LET size == VideoSize(probe) IN
       /\ dw' = DisplaySize[1]
       /\ dh' = DisplaySize[2]
       /\ vw' = size[1]
       /\ vh' = size[2]
       /\ IF size[2] = 0
          THEN /\ uncaught("ZeroDivisionError")
               /\ UNCHANGED <<aspect, stdout, interrupted>>
          ELSE /\ aspect' = <<size[1], size[2]>>
               /\ goto("geometry")
               /\ UNCHANGED outcome
    /\ UNCHANGED <<inputs, parsed, x1, y1, x2, y2, launch, waiting, win>>

\* A width that forgets the margin.
windowWidth_nomargin(d) == int(d, 2)

windowWidth(d) == int(d - Margin, 2)

windowHeight(w, asp) == int(w * asp[2], asp[1])

ComputeGeometry ==
    /\ pc = "geometry"
    /\ vw' = windowWidth(dw)
    /\ IF aspect[1] = 0
       THEN /\ uncaught("ZeroDivisionError")
            /\ UNCHANGED <<vh, x1, y1, x2, y2, stdout, interrupted>>
       ELSE /\ vh' = windowHeight(vw', aspect)
            /\ x1' = "10"
            /\ y1' = "35"
            /\ x2' = str(int(dw, 2) + 5)
            /\ y2' = "35"
            /\ goto("commands")
            /\ UNCHANGED outcome
    /\ UNCHANGED <<inputs, parsed, dw, dh, aspect, launch, waiting, win>>

(***************************************************************************)
(* Process launcher                                                        *)
(***************************************************************************)
player(title, video, extra, w, h, x, y) ==
    "ffplay -v 0 -window_title \"" \o title \o "\" -i \"" \o video \o "\"" \o extra
        \o " -x " \o str(w) \o " -y " \o str(h) \o " -left " \o x \o " -top " \o y

\* A first command line that carries the passthrough args as well.
command1_with_args == player(title1, video1, " " \o args, vw, vh, x1, y1)

command1 == player(title1, video1, "", vw, vh, x1, y1)

command2 == player(title2, video2, " " \o args, vw, vh, x2, y2)

BuildCommands ==
    /\ pc = "commands"
    /\ cmd1' = command1
    /\ cmd2' = command2
    /\ goto("run1")
    /\ UNCHANGED <<inputs, parsed, geometry, p1, p2, handle1, handle2, runs, waiting,
                   win, outcome>>

(***************************************************************************)
(* The window manager as AutoIt shows it.  A player window is "none"       *)
(* before its process is started, "pending" until it is shown, then        *)
(* "active" or "background", and "closed" once it is gone.                 *)
(***************************************************************************)
winTitle(i) == IF i = 1 THEN title1 ELSE title2

hwnd(i) == "0x000A000" \o str(i)

winPresent(i) == win[i] \in {"active", "background"}

WinActive(title) == \E i \in {1, 2} : winTitle(i) = title /\ win[i] = "active"

WinGetHandle(title) ==
    IF \E i \in {1, 2} : winTitle(i) = title /\ winPresent(i)
    THEN hwnd(CHOOSE i \in {1, 2} : winTitle(i) = title /\ winPresent(i))
    ELSE ""

WinExists(handle) ==
    \E i \in {1, 2} : winPresent(i) /\ handle = "[HANDLE:" \o hwnd(i) \o "]"

\* The window of player i is shown, in front or behind the others.
WindowShown(i) ==
    /\ pc # "exit"
    /\ win[i] = "pending"
    /\ \E front \in BOOLEAN :
          win' = [j \in {1, 2} |->
                    IF j = i THEN (IF front THEN "active" ELSE "background")
                    ELSE IF front /\ win[j] = "active" THEN "background"
                    ELSE win[j]]
    /\ UNCHANGED <<inputs, pc, parsed, geometry, launch, waiting, outcome, visited>>

\* The user brings the window of player i to the front.
WindowFocused(i) ==
    /\ pc # "exit"
    /\ win[i] = "background"
    /\ win' = [j \in {1, 2} |->
                 IF j = i THEN "active"
                 ELSE IF win[j] = "active" THEN "background"
                 ELSE win[j]]
    /\ UNCHANGED <<inputs, pc, parsed, geometry, launch, waiting, outcome, visited>>

\* Player i ends or its window is closed.
WindowClosed(i) ==
    /\ pc # "exit"
    /\ win[i] \in {"pending", "active", "background"}
    /\ win' = [win EXCEPT ![i] = "closed"]
    /\ UNCHANGED <<inputs, pc, parsed, geometry, launch, waiting, outcome, visited>>

(***************************************************************************)
(* Launching the players                                                   *)
(***************************************************************************)
\* A launch check that never reports a failure.
launchFailed_never(pid) == FALSE

launchFailed(pid) == pid = 0

\* aut.Run(cmd) for player n: the pid of the new process, or 0.
Run(n) ==
    /\ pc = (IF n = 1 THEN "run1" ELSE "run2")
    /\ LET cmd == IF n = 1 THEN cmd1 ELSE cmd2 IN
       \E pid \in {0, 4000 + n} :
          /\ runs' = Append(runs, cmd)
          /\ IF n = 1 THEN p1' = pid /\ p2' = p2 ELSE p2' = pid /\ p1' = p1
          /\ win' = IF pid = 0 THEN win ELSE [win EXCEPT ![n] = "pending"]
          /\ IF launchFailed(pid)
             THEN /\ stdout' = stdout \o <<"\n" \o cmd, "Could not start ffplay.exe">>
                  /\ sys_exit
                  /\ UNCHANGED <<stderr, interrupted>>
             ELSE /\ stdout' = Append(stdout, "\n" \o cmd)
                  /\ goto(IF n = 1 THEN "wait1" ELSE "wait2")
                  /\ UNCHANGED <<stderr, exitcode, interrupted>>
    /\ UNCHANGED <<inputs, parsed, geometry, cmd1, cmd2, handle1, handle2, waiting>>

(***************************************************************************)
(* WaitFor(title, timeout)                                                 *)
(***************************************************************************)
\* A poll budget of twenty polls per second.
pollBudget_double(seconds) == seconds * 2 * PollsPerSecond

pollBudget(seconds) == seconds * PollsPerSecond

WaitForCall(n) ==
    /\ pc = (IF n = 1 THEN "wait1" ELSE "wait2")
    /\ caller' = n
    /\ timeout' = pollBudget(WaitSeconds)
    /\ waited' = 0
    /\ goto("waitfor_test")
    /\ UNCHANGED <<inputs, parsed, geometry, launch, win, outcome>>

WaitForTest ==
    /\ pc = "waitfor_test"
    /\ IF WinActive(winTitle(caller))
       THEN goto(IF caller = 1 THEN "handle1" ELSE "handle2")
       ELSE goto("waitfor_sleep")
    /\ UNCHANGED <<inputs, parsed, geometry, launch, waiting, win, outcome>>

WaitForSleep ==
    /\ pc = "waitfor_sleep"
    /\ waited' = waited + PollMillis
    /\ timeout' = timeout - 1
    /\ IF timeout' = 0
       THEN /\ stdout' = Append(stdout, "expired")
            /\ sys_exit
            /\ UNCHANGED <<stderr, interrupted>>
       ELSE /\ goto("waitfor_test")
            /\ UNCHANGED outcome
    /\ UNCHANGED <<inputs, parsed, geometry, launch, caller, win>>

\* A KeyboardInterrupt raised in WaitFor's time.sleep: nothing catches it.
WaitForInterrupt ==
    /\ pc = "waitfor_sleep"
    /\ interrupted' = "WaitFor" \o str(caller)
    /\ uncaught("KeyboardInterrupt")
    /\ UNCHANGED <<inputs, parsed, geometry, launch, waiting, win, stdout>>

GetHandle(n) ==
    /\ pc = (IF n = 1 THEN "handle1" ELSE "handle2")
    /\ IF n = 1
       THEN /\ handle1' = "[HANDLE:" \o WinGetHandle(title1) \o "]"
            /\ handle2' = handle2
       ELSE /\ handle2' = "[HANDLE:" \o WinGetHandle(title2) \o "]"
            /\ handle1' = handle1
    /\ caller' = 0
    /\ goto(IF n = 1 THEN "run2" ELSE "loop")
    /\ UNCHANGED <<inputs, parsed, geometry, cmd1, cmd2, p1, p2, runs, timeout, waited,
                   win, outcome>>

(***************************************************************************)
(* Lifecycle poll loop                                                     *)
(***************************************************************************)
\* A loop that goes on only while both windows exist.
loopCondition_both == WinExists(handle1) /\ WinExists(handle2)

loopCondition == WinExists(handle1) \/ WinExists(handle2)

LoopTest ==
    /\ pc = "loop"
    /\ IF loopCondition
       THEN goto("loopsleep") /\ exitcode' = exitcode
       ELSE goto("exit") /\ exitcode' = 0
    /\ UNCHANGED <<inputs, parsed, geometry, launch, waiting, win, stdout, stderr,
                   interrupted>>

LoopSleep ==
    /\ pc = "loopsleep"
    /\ goto("loop")
    /\ UNCHANGED <<inputs, parsed, geometry, launch, waiting, win, outcome>>

\* A handler that lets the exception through.
exceptPass_reraise == uncaught("KeyboardInterrupt")

\* except: pass, then the script ends.
exceptPass == goto("exit") /\ exitcode' = 0 /\ stderr' = stderr

\* A KeyboardInterrupt raised in the loop's time.sleep.
LoopInterrupt ==
    /\ pc = "loopsleep"
    /\ interrupted' = "loop"
    /\ exceptPass
    /\ UNCHANGED <<inputs, parsed, geometry, launch, waiting, win, stdout>>

(***************************************************************************)
(* The script and its environment                                          *)
(***************************************************************************)
Program ==
    \/ CheckUsage
    \/ ParseArgs
    \/ CheckVideo1
    \/ CheckVideo2
    \/ MakeTitles
    \/ QuerySizes
    \/ ComputeGeometry
    \/ BuildCommands
    \/ \E n \in {1, 2} : Run(n)
    \/ \E n \in {1, 2} : WaitForCall(n)
    \/ WaitForTest
    \/ WaitForSleep
    \/ \E n \in {1, 2} : GetHandle(n)
    \/ LoopTest
    \/ LoopSleep

Environment ==
    \/ \E i \in {1, 2} : WindowShown(i)
    \/ \E i \in {1, 2} : WindowFocused(i)
    \/ \E i \in {1, 2} : WindowClosed(i)
    \/ WaitForInterrupt
    \/ LoopInterrupt

Next == Program \/ Environment

Spec == Init /\ [][Next]_vars

\* Runs that reach the lifecycle loop on one display with one video format.
FairInit ==
    /\ Init
    /\ argv \in { <<Prog, "a.mp4", "-same">>, <<Prog, "a.mp4", "b.mp4", "-sepia", "-an">> }
    /\ files = {"a.mp4", "b.mp4"}
    /\ screen = <<1920, 1080>>
    /\ VideoSize(probe) = <<1920, 1080>>

\* The interpreter keeps executing the two polling loops: a test that is due
\* is made, and a sleep that no interrupt ends returns.
FairSpec ==
    /\ FairInit
    /\ [][Next]_vars
    /\ WF_vars(WaitForTest) /\ WF_vars(WaitForSleep)
    /\ WF_vars(LoopTest) /\ WF_vars(LoopSleep)

(***************************************************************************)
(* Reading a player command line back                                      *)
(***************************************************************************)
\* The index just past the first occurrence of marker in s, 0 when absent.
pastFirst(s, marker) ==
    LET at == {i \in 1..(Len(s) - Len(marker) + 1) :
                  SubSeq(s, i, i + Len(marker) - 1) = marker}
    IN  IF at = {} THEN 0
        ELSE (CHOOSE i \in at : \A o \in at : i <= o) + Len(marker)

\* The text of s from index i up to the next double quote.
quotedFrom(s, i) ==
    LET close == CHOOSE k \in i..(Len(s) + 1) :
                    /\ k = Len(s) + 1 \/ char(s, k) = "\""
                    /\ \A j \in i..(k - 1) : char(s, j) # "\""
    IN  SubSeq(s, i, close - 1)

titleOf(cmd) == quotedFrom(cmd, pastFirst(cmd, "-window_title \""))

inputOf(cmd) == quotedFrom(cmd, pastFirst(cmd, " -i \""))

\* What stands between the quoted input and the window size.
extraOf(cmd) ==
    LET from == pastFirst(cmd, " -i \"") + Len(inputOf(cmd)) + 1
    IN  SubSeq(cmd, from, pastFirst(cmd, " -x ") - 5)

\* The window size options of the command line: '-x <w> -y <h>'.
sizeOf(cmd) == SubSeq(cmd, pastFirst(cmd, " -x ") - 3, pastFirst(cmd, " -left ") - 8)

lastLine(out) == IF Len(out) = 0 THEN "" ELSE out[Len(out)]

Expired == pc = "exit" /\ lastLine(stdout) = "expired"

InWaitFor == pc \in {"waitfor_test", "waitfor_sleep"}

\* Both command lines are built and nothing is launched yet.
JustBuilt == pc = "run1"

MissingFile ==
    /\ Len(argv) >= 3
    /\ \/ argv[2] \notin files
       \/ (IF argv[3] = "-same" THEN argv[2] ELSE argv[3]) \notin files

(***************************************************************************)
(* C1: a run in which video1, or video2 after '-same' is replaced by       *)
(* video1, is not an existing file never calls aut.Run: it ends at the     *)
(* file checks, and every aut.Run call was preceded by both checks passing.*)
(***************************************************************************)
C1_NoLaunchWithoutFiles ==
    /\ MissingFile =>
          /\ runs = <<>>
          /\ win = [i \in {1, 2} |-> "none"]
          /\ pc \in {"usage", "parse", "check1", "check2", "exit"}
    /\ runs # <<>> => {"check1", "check2"} \subseteq visited /\ ~MissingFile

C1_Witness ==
    /\ pc = "exit"
    /\ argv = <<Prog, "a.mp4", "b.mp4">>
    /\ files = {"a.mp4"}
    /\ stdout = <<"Could not find: b.mp4">>
    /\ runs = <<>>

(***************************************************************************)
(* C2: WaitFor(title, 5) never waits past 50 polls of 100 ms: the 50th     *)
(* poll that finds the window not active ends the program with 'expired',  *)
(* 5 seconds after the wait began, and such a run never enters the         *)
(* lifecycle poll loop.  Every wait ends: the window is seen active, the   *)
(* wait expires, or an interrupt ends the program.                         *)
(***************************************************************************)
WaitIsBounded ==
    /\ InWaitFor => /\ waited < 5000
                    /\ timeout = 50 - (waited \div 100)
                    /\ timeout > 0
    /\ waited = 5000 => Expired
    /\ Expired => /\ waited = 5000
                  /\ timeout = 0
                  /\ exitcode = 0
                  /\ {"loop", "loopsleep"} \cap visited = {}

C2_ExpiredAfterFiveSeconds ==
    /\ []WaitIsBounded
    /\ \A n \in {1, 2} :
          (InWaitFor /\ caller = n) ~>
              \/ pc = (IF n = 1 THEN "handle1" ELSE "handle2")
              \/ Expired
              \/ interrupted = "WaitFor" \o str(n)

C2_Witness ==
    /\ Expired
    /\ caller = 2
    /\ win[2] = "background"
    /\ waited = 5000

(***************************************************************************)
(* C3 as stated: after too few arguments or a missing video file the       *)
(* program has printed its message and exits with a non-zero status.       *)
(***************************************************************************)
C3_ErrorExitNonZero ==
    (pc = "exit" /\ (Len(argv) < 3 \/ MissingFile)) =>
        /\ stdout # <<>>
        /\ exitcode # 0

(***************************************************************************)
(* C3 amended: after too few arguments or a missing video file the program *)
(* prints its message (the usage text, or 'Could not find: <path>') and    *)
(* exits through sys.exit() with exit status 0.                            *)
(***************************************************************************)
C3_ErrorExitZero ==
    /\ Len(argv) < 3 \/ MissingFile =>
          pc \in {"usage", "parse", "check1", "check2", "exit"}
    /\ (pc = "exit" /\ Len(argv) < 3) =>
          stdout = <<UsageText>> /\ stderr = <<>> /\ exitcode = 0
    /\ (pc = "exit" /\ MissingFile) =>
          /\ stdout \in { <<"Could not find: " \o video1>>,
                          <<"Could not find: " \o video2>> }
          /\ lastLine(stdout) \notin {"Could not find: " \o f : f \in files}
          /\ stderr = <<>>
          /\ exitcode = 0

C3_Witness ==
    /\ pc = "exit"
    /\ argv = <<Prog, "a.mp4">>
    /\ stdout = <<UsageText>>
    /\ exitcode = 0

(***************************************************************************)
(* C4: every error is terminal and the program prints its own short        *)
(* diagnostic before it exits: a run that ends before the lifecycle loop   *)
(* without an interrupt has one of the program's messages as its last      *)
(* output and no interpreter traceback.                                    *)
(***************************************************************************)
C4_EveryErrorPrintsDiagnostic ==
    (pc = "exit" /\ interrupted = "" /\ "loop" \notin visited) =>
        /\ stderr = <<>>
        /\ \/ lastLine(stdout) \in {UsageText, "Could not start ffplay.exe", "expired"}
           \/ lastLine(stdout) \in {"Could not find: " \o v : v \in {video1, video2}}

(***************************************************************************)
(* C5: in the lifecycle loop a poll that finds at least one of the two     *)
(* windows still existing goes on to sleep and poll again, a poll that     *)
(* finds both gone ends the program normally (status 0, no traceback),     *)
(* and once both windows are closed the program eventually terminates.     *)
(***************************************************************************)
C5_LifecyclePoll ==
    /\ [][(pc = "loop" /\ pc' # "loop") =>
             IF winPresent(1) \/ winPresent(2)
             THEN pc' = "loopsleep"
             ELSE pc' = "exit" /\ exitcode' = 0 /\ stderr' = <<>>]_vars
    /\ [][(pc = "loopsleep" /\ pc' = "exit") => interrupted' = "loop"]_vars
    /\ (pc \in {"loop", "loopsleep"} /\ ~winPresent(1) /\ ~winPresent(2)) ~> (pc = "exit")

C5_Witness ==
    /\ pc = "exit"
    /\ "loopsleep" \in visited
    /\ interrupted = ""
    /\ win = [i \in {1, 2} |-> "closed"]
    /\ exitcode = 0

GammaCommandLine == <<Prog, "video1.mp4", "-same", "-gamma", "0.90">>

C7_GammaKeepsLeadingDigit ==
    (argv = GammaCommandLine /\ JustBuilt) =>
        /\ args = "-vf eq=gamma=0.9"
        /\ extraOf(cmd2) = " -vf eq=gamma=0.9"

(***************************************************************************)
(* C7 amended: for video1.mp4 -same -gamma 0.90 the passthrough args of    *)
(* the second player are exactly '-vf eq=gamma=.9': the trailing zero and  *)
(* the leading zero of the value are both stripped.                        *)
(***************************************************************************)
C7_GammaStripsBothZeros ==
    /\ (argv = GammaCommandLine /\ "parse" \in visited) => args = "-vf eq=gamma=.9"
    /\ (argv = GammaCommandLine /\ JustBuilt) => extraOf(cmd2) = " -vf eq=gamma=.9"
    /\ Len(runs) = 2 => runs[2] = cmd2

C7_Witness ==
    /\ argv = GammaCommandLine
    /\ Len(runs) = 2
    /\ runs[2] = cmd2
    /\ p2 # 0

C9_SameSource ==
    (Len(argv) >= 3 /\ argv[3] = "-same" /\ JustBuilt) =>
        /\ inputOf(cmd1) = argv[2]
        /\ inputOf(cmd2) = argv[2]
        /\ extraOf(cmd1) = ""
        /\ extraOf(cmd2) = " " \o args
        /\ titleOf(cmd1) # titleOf(cmd2)
        /\ titleOf(cmd1) = title1 /\ titleOf(cmd2) = title2

C9_Witness ==
    /\ argv = <<Prog, "a.mp4", "-same", "-GREY">>
    /\ JustBuilt
    /\ args = Grey
    /\ inputOf(cmd2) = "a.mp4"

(***************************************************************************)
(* C10: the players are started one after the other: aut.Run is called for *)
(* the second player only after the first one started (non-zero pid), its  *)
(* window was seen active by WaitFor and its handle was resolved; after a  *)
(* failed first launch or an expired first wait there is no second launch. *)
(***************************************************************************)
C10_SequentialLaunch ==
    /\ Len(runs) <= 2
    /\ (pc = "run2" \/ Len(runs) = 2) =>
          /\ p1 # 0
          /\ {"run1", "wait1", "waitfor_test", "handle1"} \subseteq visited
          /\ handle1 # ""
          /\ win[1] \in {"active", "background", "closed"}
    /\ Len(runs) >= 1 => runs[1] = cmd1
    /\ Len(runs) = 2 => runs[2] = cmd2
    /\ ("run1" \in visited /\ p1 = 0) => pc = "exit" /\ Len(runs) = 1
    /\ (Expired /\ caller = 1) => Len(runs) = 1 /\ win[2] = "none"

C10_Witness ==
    /\ Len(runs) = 2
    /\ p2 # 0
    /\ win[1] = "background"
    /\ handle1 = "[HANDLE:0x000A0001]"

====
